---------------------------- MODULE Spec2Model ----------------------------
(***************************************************************************)
(* SF::Vector2 and SF::Vector3 (SF/include/Vector2.h, Vector3.h).          *)
(*                                                                         *)
(* The two classes hold C++ `float` components and compute with IEEE-754   *)
(* arithmetic.  The model keeps that arithmetic: a value is a NaN, a       *)
(* signed infinity or a signed dyadic number m * 2^e, and every operation  *)
(* rounds its exact result to the format (round to nearest, ties to even,  *)
(* gradual underflow, overflow to infinity).  `float` is scaled down to    *)
(* FltP significand bits and maximal exponent FltEMax; `double`, which     *)
(* pow, sqrt and atan2 compute in, is the wider format Dbl that holds      *)
(* every product of two floats exactly, as binary64 does for binary32.     *)
(***************************************************************************)
EXTENDS Integers, Naturals, Sequences, FiniteSets, TLC

(***************************************************************************)
(* State: two vector objects, a scalar, and what the last call did.        *)
(***************************************************************************)
VARIABLES
    va,     \* the receiver (or first operand): <<x, y>> or <<val[0], val[1], val[2]>>
    vb,     \* a second, distinct vector object of the same class
    sc,     \* a float scalar operand
    op,     \* the calls made so far, or the last call with its arguments
    out,    \* what the calls returned
    fold,   \* the value the non-mutating operators give for the calls so far
    nops,   \* number of mutating calls made on the receiver
    atan2f  \* the build: TRUE when the unqualified atan2(float, float) resolves
            \* to a float overload in the global namespace, FALSE when to
            \* ::atan2(double, double)

vars == <<va, vb, sc, op, out, fold, nops, atan2f>>

(***************************************************************************)
(* Bounds of the model.                                                    *)
(***************************************************************************)
\* significand bits of the model's float (24 in binary32)
FltP == 3
\* largest exponent of the model's float (127 in binary32); emin = 1 - emax
FltEMax == 6

(***************************************************************************)
(* Floating-point formats and values.                                      *)
(***************************************************************************)
Flt == [p |-> FltP, emax |-> FltEMax]
Dbl == [p |-> 2 * FltP + 2, emax |-> 2 * FltEMax + 2]

\* exponent of the least significant bit of the smallest subnormal
EMinU(fmt) == 2 - fmt.emax - fmt.p

RECURSIVE Pow2(_)
Pow2(n) == IF n <= 0 THEN 1 ELSE 2 * Pow2(n - 1)

\* bit length of a natural number
RECURSIVE Bits(_)
Bits(m) == IF m = 0 THEN 0 ELSE 1 + Bits(m \div 2)

Max(i, j) == IF i >= j THEN i ELSE j
Min(i, j) == IF i <= j THEN i ELSE j

NaN == [k |-> "nan", neg |-> FALSE, m |-> 0, e |-> 0]
Inf(neg) == [k |-> "inf", neg |-> neg, m |-> 0, e |-> 0]
Zero(neg) == [k |-> "fin", neg |-> neg, m |-> 0, e |-> 0]

\* the finite value (-1)^neg * m * 2^e in canonical form: m odd, or m = e = 0
RECURSIVE Fin(_, _, _)
Fin(neg, m, e) ==
    IF m = 0 THEN Zero(neg)
    ELSE IF m % 2 = 0 THEN Fin(neg, m \div 2, e + 1)
    ELSE [k |-> "fin", neg |-> neg, m |-> m, e |-> e]

IsNaN(x) == x.k = "nan"
IsInf(x) == x.k = "inf"
IsFin(x) == x.k = "fin"
IsZero(x) == x.k = "fin" /\ x.m = 0

\* M * 2^E rounded to the format: to nearest, ties to even; subnormals;
\* overflow to infinity.  A quotient or root that is not exact is passed with
\* an extra low bit set (a sticky bit), two or more places below the last
\* bit kept, so that it never looks like a tie
Round(fmt, neg, M, E) ==
    IF M = 0 THEN Zero(neg)
    ELSE
      LET q == Max(E + Bits(M) - fmt.p, EMinU(fmt))
          sh == q - E
          fl == M \div Pow2(sh)
          rem == M - fl * Pow2(sh)
          half == Pow2(sh - 1)
          up == rem > half \/ (rem = half /\ fl % 2 = 1)
          R == IF q <= E THEN M ELSE IF up THEN fl + 1 ELSE fl
          Eq == IF q <= E THEN E ELSE q
      IN  IF R = 0 THEN Zero(neg)
          ELSE IF Eq + Bits(R) - 1 > fmt.emax THEN Inf(neg)
          ELSE Fin(neg, R, Eq)

\* every value of the format
FormatValues(fmt) ==
    {NaN, Inf(FALSE), Inf(TRUE)} \cup
    { Fin(n, m, e) : n \in BOOLEAN, m \in 0 .. (Pow2(fmt.p) - 1),
                     e \in EMinU(fmt) .. (fmt.emax - fmt.p + 1) }

Floats == FormatValues(Flt)

\* unary minus
FNeg(x) ==
    IF IsNaN(x) THEN x ELSE [x EXCEPT !.neg = ~x.neg]

\* fabs
FAbs(x) ==
    IF IsNaN(x) THEN x ELSE [x EXCEPT !.neg = FALSE]

\* x + y in the format
FAdd(fmt, x, y) ==
    IF IsNaN(x) \/ IsNaN(y) THEN NaN
    ELSE IF IsInf(x) THEN (IF IsInf(y) /\ y.neg # x.neg THEN NaN ELSE x)
    ELSE IF IsInf(y) THEN y
    ELSE IF x.m = 0 /\ y.m = 0 THEN Zero(x.neg /\ y.neg)
    ELSE IF x.m = 0 THEN y
    ELSE IF y.m = 0 THEN x
    ELSE
      LET tx == x.e + Bits(x.m)
          ty == y.e + Bits(y.m)
      IN  IF tx - ty > fmt.p + 1 THEN x
          ELSE IF ty - tx > fmt.p + 1 THEN y
          ELSE
            LET E == Min(x.e, y.e)
                A == x.m * Pow2(x.e - E)
                B == y.m * Pow2(y.e - E)
                S == (IF x.neg THEN -A ELSE A) + (IF y.neg THEN -B ELSE B)
            IN  IF S = 0 THEN Zero(FALSE)
                ELSE IF S < 0 THEN Round(fmt, TRUE, -S, E)
                ELSE Round(fmt, FALSE, S, E)

\* x - y in the format
FSub(fmt, x, y) == FAdd(fmt, x, FNeg(y))

\* x * y in the format
FMul(fmt, x, y) ==
    IF IsNaN(x) \/ IsNaN(y) THEN NaN
    ELSE IF IsInf(x) \/ IsInf(y)
      THEN (IF IsZero(x) \/ IsZero(y) THEN NaN ELSE Inf(x.neg # y.neg))
    ELSE Round(fmt, x.neg # y.neg, x.m * y.m, x.e + y.e)

\* x / y in the format
FDiv(fmt, x, y) ==
    IF IsNaN(x) \/ IsNaN(y) THEN NaN
    ELSE IF IsInf(x) THEN (IF IsInf(y) THEN NaN ELSE Inf(x.neg # y.neg))
    ELSE IF IsInf(y) THEN Zero(x.neg # y.neg)
    ELSE IF y.m = 0 THEN (IF x.m = 0 THEN NaN ELSE Inf(x.neg # y.neg))
    ELSE IF x.m = 0 THEN Zero(x.neg # y.neg)
    ELSE
      LET k == Max(0, fmt.p + 2 + Bits(y.m) - Bits(x.m))
          N == x.m * Pow2(k)
          Q == N \div y.m
          rem == N - Q * y.m
      IN  Round(fmt, x.neg # y.neg, 2 * Q + (IF rem = 0 THEN 0 ELSE 1),
                x.e - y.e - k - 1)

\* floor of the square root of a natural number
RECURSIVE ISqrtFrom(_, _)
ISqrtFrom(n, r) == IF (r + 1) * (r + 1) > n THEN r ELSE ISqrtFrom(n, r + 1)
RECURSIVE ISqrt(_)
ISqrt(n) ==
    IF n < 4 THEN ISqrtFrom(n, 0)
    ELSE LET r == 2 * ISqrt(n \div 4)
         IN  IF (r + 1) * (r + 1) > n THEN r ELSE r + 1

\* sqrt(x) in the format
FSqrt(fmt, x) ==
    IF IsNaN(x) THEN NaN
    ELSE IF IsInf(x) THEN (IF x.neg THEN NaN ELSE x)
    ELSE IF x.m = 0 THEN x
    ELSE IF x.neg THEN NaN
    ELSE
      LET k0 == Max(0, 2 * fmt.p + 2 - Bits(x.m))
          k == IF (x.e - k0) % 2 = 0 THEN k0 ELSE k0 + 1
          N == x.m * Pow2(k)
          R == ISqrt(N)
          rem == N - R * R
      IN  Round(fmt, FALSE, 2 * R + (IF rem = 0 THEN 0 ELSE 1),
                ((x.e - k) \div 2) - 1)

\* conversion of a value to the format (double to float narrows, float to
\* double is exact)
FConv(fmt, x) == IF IsFin(x) THEN Round(fmt, x.neg, x.m, x.e) ELSE x

\* |x| < |y| for finite x, y
MagLt(x, y) ==
    IF y.m = 0 THEN FALSE
    ELSE IF x.m = 0 THEN TRUE
    ELSE
      LET tx == x.e + Bits(x.m)
          ty == y.e + Bits(y.m)
          E == Min(x.e, y.e)
      IN  IF tx # ty THEN tx < ty
          ELSE x.m * Pow2(x.e - E) < y.m * Pow2(y.e - E)

\* x < y (false when either is a NaN)
FLt(x, y) ==
    IF IsNaN(x) \/ IsNaN(y) THEN FALSE
    ELSE IF IsInf(x) THEN x.neg /\ ~(IsInf(y) /\ y.neg)
    ELSE IF IsInf(y) THEN ~y.neg
    ELSE IF x.m = 0 /\ y.m = 0 THEN FALSE
    ELSE IF x.neg /\ ~y.neg THEN TRUE
    ELSE IF ~x.neg /\ y.neg THEN FALSE
    ELSE IF x.neg THEN MagLt(y, x)
    ELSE MagLt(x, y)

\* x > y
FGt(x, y) == FLt(y, x)

\* x == y (false when either is a NaN; +0 == -0)
FEq(x, y) ==
    IF IsNaN(x) \/ IsNaN(y) THEN FALSE
    ELSE IF IsZero(x) /\ IsZero(y) THEN TRUE
    ELSE x = y

\* the float of a small integer
FromInt(n) == IF n < 0 THEN Round(Flt, TRUE, -n, 0)
              ELSE Round(Flt, FALSE, n, 0)

\* FLT_EPSILON: the gap between 1.0f and the next float
FLT_EPSILON == Fin(FALSE, 1, 1 - FltP)

One == FromInt(1)

(***************************************************************************)
(* SF::Vector2.  A Vector2 is <<x_, y_>>.                                  *)
(***************************************************************************)
Vector2_default == <<Zero(FALSE), Zero(FALSE)>>
Vector2_x(self) == self[1]
Vector2_y(self) == self[2]

\* negation that leaves y_ as it is
Vector2_Neg_OnlyX(self) == <<FNeg(self[1]), self[2]>>

Vector2_Neg(self) == <<FNeg(self[1]), FNeg(self[2])>>

Vector2_Dot(self, vector) ==
    FAdd(Flt, FMul(Flt, self[1], Vector2_x(vector)),
              FMul(Flt, self[2], Vector2_y(vector)))

\* scaling that writes x_ * s to both members
Vector2_Mul_TwiceX(self, sv) == <<FMul(Flt, self[1], sv), FMul(Flt, self[1], sv)>>

Vector2_Mul(self, sv) == <<FMul(Flt, self[1], sv), FMul(Flt, self[2], sv)>>

Vector2_Div(self, sv) ==
    LET invS == FDiv(Flt, One, sv)
    IN  <<FMul(Flt, self[1], invS), FMul(Flt, self[2], invS)>>

Vector2_Add(self, vector) ==
    <<FAdd(Flt, self[1], Vector2_x(vector)), FAdd(Flt, self[2], Vector2_y(vector))>>

Vector2_Sub(self, vector) ==
    <<FSub(Flt, self[1], Vector2_x(vector)), FSub(Flt, self[2], Vector2_y(vector))>>

Vector2_Eq(self, vector) ==
    /\ FLt(FAbs(FSub(Flt, self[1], Vector2_x(vector))), FLT_EPSILON)
    /\ FLt(FAbs(FSub(Flt, self[2], Vector2_y(vector))), FLT_EPSILON)

\* operator!= with >= for >
Vector2_Ne_OrEqual(self, vector) ==
    /\ ~FLt(FAbs(FSub(Flt, self[1], Vector2_x(vector))), FLT_EPSILON)
    /\ ~FLt(FAbs(FSub(Flt, self[2], Vector2_y(vector))), FLT_EPSILON)
    /\ ~IsNaN(FSub(Flt, self[1], Vector2_x(vector)))
    /\ ~IsNaN(FSub(Flt, self[2], Vector2_y(vector)))

Vector2_Ne(self, vector) ==
    /\ FGt(FAbs(FSub(Flt, self[1], Vector2_x(vector))), FLT_EPSILON)
    /\ FGt(FAbs(FSub(Flt, self[2], Vector2_y(vector))), FLT_EPSILON)

\* The in-place operators assign the members one after the other.  `alias`
\* says that the argument is the receiver itself (v += v), so that the second
\* assignment reads the argument after the first one has written it.
Vector2_MulAssign(self, sv) ==
    LET s1 == [self EXCEPT ![1] = FMul(Flt, self[1], sv)]
    IN  [s1 EXCEPT ![2] = FMul(Flt, s1[2], sv)]

\* operator/= dividing each member by s
Vector2_DivAssign_Quotient(self, sv) ==
    <<FDiv(Flt, self[1], sv), FDiv(Flt, self[2], sv)>>

Vector2_DivAssign(self, sv) ==
    LET invS == FDiv(Flt, One, sv)
        s1 == [self EXCEPT ![1] = FMul(Flt, self[1], invS)]
    IN  [s1 EXCEPT ![2] = FMul(Flt, s1[2], invS)]

Vector2_AddAssign(self, vector, alias) ==
    LET s1 == [self EXCEPT ![1] = FAdd(Flt, self[1], Vector2_x(vector))]
        v1 == IF alias THEN s1 ELSE vector
    IN  [s1 EXCEPT ![2] = FAdd(Flt, s1[2], Vector2_y(v1))]

Vector2_SubAssign(self, vector, alias) ==
    LET s1 == [self EXCEPT ![1] = FSub(Flt, self[1], Vector2_x(vector))]
        v1 == IF alias THEN s1 ELSE vector
    IN  [s1 EXCEPT ![2] = FSub(Flt, s1[2], Vector2_y(v1))]

\* sqrt(pow(x_, 2) + pow(y_, 2)): pow and sqrt take and return double
Vector2_length(self) ==
    FSqrt(Dbl, FAdd(Dbl, FMul(Dbl, self[1], self[1]), FMul(Dbl, self[2], self[2])))

\* normalized() without its guard
Vector2_normalized_NoGuard(self) ==
    [val |-> <<FConv(Flt, FDiv(Dbl, self[1], Vector2_length(self))),
               FConv(Flt, FDiv(Dbl, self[2], Vector2_length(self)))>>,
     divided |-> TRUE]

\* normalized(): the value returned, and whether it was computed by dividing.
\* x_ / length is a double that the constructor narrows to float.
Vector2_normalized(self) ==
    LET length == Vector2_length(self)
    IN  IF FLt(length, FLT_EPSILON)
        THEN [val |-> self, divided |-> FALSE]
        ELSE [val |-> <<FConv(Flt, FDiv(Dbl, self[1], length)),
                        FConv(Flt, FDiv(Dbl, self[2], length))>>,
              divided |-> TRUE]

\* abs(vector): std::sqrt of the float dot product
Vector2_abs(vector) == FSqrt(Flt, Vector2_Dot(vector, vector))

\* normalize(vector): vector / abs(vector), whatever the length is
Vector2_normalize(vector) == Vector2_Div(vector, Vector2_abs(vector))

(***************************************************************************)
(* Angles.  polarAngle and angleTo compute in double with atan2, which no  *)
(* finite arithmetic reproduces; the model covers the arguments for which  *)
(* atan2 is a multiple of pi/4 (an axis, a diagonal, a zero or an infinite *)
(* component).  An angle is q * pi/4 + r * 1e-9, a NaN apart: r is what    *)
(* the rounding of a float atan2 result adds, in nanoradians.              *)
(***************************************************************************)
\* #define M_PI, in units of pi/4
M_PI == 4

AngNaN == [k |-> "nan", q |-> 0, r |-> 0]
Ang(q) == [k |-> "fin", q |-> q, r |-> 0]

\* the vectors whose polar angle is a multiple of pi/4
ExactAngle(u) ==
    \/ IsNaN(u[1]) \/ IsNaN(u[2])
    \/ IsZero(u[1]) \/ IsZero(u[2])
    \/ IsInf(u[1]) \/ IsInf(u[2])
    \/ FAbs(u[1]) = FAbs(u[2])

\* ::atan2(double, double), in units of pi/4, for ExactAngle arguments
\* (C11 F.10.1.4); the double nearest q * pi/4 is q * (M_PI / 4)
Atan2(y, x) ==
    LET sgn(q) == IF y.neg THEN Ang(-q) ELSE Ang(q)
    IN  CASE IsNaN(x) \/ IsNaN(y) -> AngNaN
          [] IsZero(y) -> IF x.neg THEN sgn(4) ELSE sgn(0)
          [] ~IsZero(y) /\ IsZero(x) -> sgn(2)
          [] IsInf(y) /\ IsInf(x) -> IF x.neg THEN sgn(3) ELSE sgn(1)
          [] IsInf(y) /\ IsFin(x) /\ ~IsZero(x) -> sgn(2)
          [] IsFin(y) /\ ~IsZero(y) /\ IsInf(x) -> IF x.neg THEN sgn(4) ELSE sgn(0)
          [] IsFin(y) /\ ~IsZero(y) /\ IsFin(x) /\ ~IsZero(x) /\ FAbs(x) = FAbs(y) ->
                IF x.neg THEN sgn(3) ELSE sgn(1)

\* atan2(float, float): the binary32 value nearest the angle, which lies
\* above pi/4, pi/2, 3 pi/4 and pi by 22, 44, 6 and 87 nanoradians
Atan2Float(y, x) ==
    LET p == Atan2(y, x)
        excess == <<22, 44, 6, 87>>
    IN  IF p.k = "nan" \/ p.q = 0 THEN p
        ELSE IF p.q > 0 THEN [p EXCEPT !.r = excess[p.q]]
        ELSE [p EXCEPT !.r = -excess[-p.q]]

Vector2_polarAngle(self) ==
    IF atan2f THEN Atan2Float(Vector2_y(self), Vector2_x(self))
    ELSE Atan2(Vector2_y(self), Vector2_x(self))

\* double subtraction and comparison of angles
AngSub(p, q) ==
    IF p.k = "nan" \/ q.k = "nan" THEN AngNaN
    ELSE [k |-> "fin", q |-> p.q - q.q, r |-> p.r - q.r]
AngAddConst(p, c) == IF p.k = "nan" THEN AngNaN ELSE [p EXCEPT !.q = p.q + c]
AngGt(p, c) == p.k = "fin" /\ (p.q > c \/ (p.q = c /\ p.r > 0))
AngLe(p, c) == p.k = "fin" /\ ~AngGt(p, c)

\* angleTo with the usual wrap: less 2 pi above pi
Vector2_angleTo_FullTurn(self, other) ==
    LET diffAngle == AngSub(Vector2_polarAngle(other), Vector2_polarAngle(self))
    IN  IF AngGt(diffAngle, M_PI) THEN AngAddConst(diffAngle, -2 * M_PI)
        ELSE IF AngLe(diffAngle, -M_PI) THEN AngAddConst(diffAngle, 2 * M_PI)
        ELSE diffAngle

\* angleTo adding pi, not 2 pi, at or below -pi
Vector2_angleTo_HalfTurnUp(self, other) ==
    LET diffAngle == AngSub(Vector2_polarAngle(other), Vector2_polarAngle(self))
    IN  IF AngGt(diffAngle, M_PI) THEN AngAddConst(diffAngle, -M_PI)
        ELSE IF AngLe(diffAngle, -M_PI) THEN AngAddConst(diffAngle, M_PI)
        ELSE diffAngle

Vector2_angleTo(self, other) ==
    LET angleThis == Vector2_polarAngle(self)
        angleOther == Vector2_polarAngle(other)
        diffAngle == AngSub(angleOther, angleThis)
    IN  IF AngGt(diffAngle, M_PI) THEN AngAddConst(diffAngle, -M_PI)
        ELSE IF AngLe(diffAngle, -M_PI) THEN AngAddConst(diffAngle, 2 * M_PI)
        ELSE diffAngle

(***************************************************************************)
(* SF::Vector3.  A Vector3 is <<val_[0], val_[1], val_[2]>>.               *)
(***************************************************************************)
Vector3_default == <<Zero(FALSE), Zero(FALSE), Zero(FALSE)>>
Vector3_x(self) == self[1]
\* y() reading val_[2]
Vector3_y_ReadsZ(self) == self[3]
Vector3_y(self) == self[2]
Vector3_z(self) == self[3]
\* operator[](i) const, i in 0 .. 2
Vector3_Index(self, i) == self[i + 1]
\* the write through the reference operator[](i) returns
Vector3_IndexAssign(self, i, x) == [self EXCEPT ![i + 1] = x]

Vector3_Neg(self) == <<FNeg(self[1]), FNeg(self[2]), FNeg(self[3])>>

Vector3_Dot(self, vector) ==
    FAdd(Flt, FAdd(Flt, FMul(Flt, self[1], Vector3_Index(vector, 0)),
                        FMul(Flt, self[2], Vector3_Index(vector, 1))),
              FMul(Flt, self[3], Vector3_Index(vector, 2)))

Vector3_Mul(self, scalar) ==
    <<FMul(Flt, self[1], scalar), FMul(Flt, self[2], scalar), FMul(Flt, self[3], scalar)>>

Vector3_Div(self, scalar) ==
    LET invScalar == FDiv(Flt, One, scalar)
    IN  <<FMul(Flt, self[1], invScalar), FMul(Flt, self[2], invScalar),
          FMul(Flt, self[3], invScalar)>>

Vector3_Add(self, vector) ==
    <<FAdd(Flt, self[1], Vector3_Index(vector, 0)),
      FAdd(Flt, self[2], Vector3_Index(vector, 1)),
      FAdd(Flt, self[3], Vector3_Index(vector, 2))>>

Vector3_Sub(self, vector) ==
    <<FSub(Flt, self[1], Vector3_Index(vector, 0)),
      FSub(Flt, self[2], Vector3_Index(vector, 1)),
      FSub(Flt, self[3], Vector3_Index(vector, 2))>>

Vector3_Eq(self, vector) ==
    /\ FLt(FAbs(FSub(Flt, self[1], Vector3_Index(vector, 0))), FLT_EPSILON)
    /\ FLt(FAbs(FSub(Flt, self[2], Vector3_Index(vector, 1))), FLT_EPSILON)
    /\ FLt(FAbs(FSub(Flt, self[3], Vector3_Index(vector, 2))), FLT_EPSILON)

\* operator!= written as the negation of operator==
Vector3_Ne_AsNegation(self, vector) == ~Vector3_Eq(self, vector)

Vector3_Ne(self, vector) ==
    /\ FGt(FAbs(FSub(Flt, self[1], Vector3_Index(vector, 0))), FLT_EPSILON)
    /\ FGt(FAbs(FSub(Flt, self[2], Vector3_Index(vector, 1))), FLT_EPSILON)
    /\ FGt(FAbs(FSub(Flt, self[3], Vector3_Index(vector, 2))), FLT_EPSILON)

Vector3_MulAssign(self, scalar) ==
    LET s1 == [self EXCEPT ![1] = FMul(Flt, self[1], scalar)]
        s2 == [s1 EXCEPT ![2] = FMul(Flt, s1[2], scalar)]
    IN  [s2 EXCEPT ![3] = FMul(Flt, s2[3], scalar)]

Vector3_DivAssign(self, scalar) ==
    LET invScalar == FDiv(Flt, One, scalar)
        s1 == [self EXCEPT ![1] = FMul(Flt, self[1], invScalar)]
        s2 == [s1 EXCEPT ![2] = FMul(Flt, s1[2], invScalar)]
    IN  [s2 EXCEPT ![3] = FMul(Flt, s2[3], invScalar)]

Vector3_AddAssign(self, vector, alias) ==
    LET s1 == [self EXCEPT ![1] = FAdd(Flt, self[1], Vector3_Index(vector, 0))]
        v1 == IF alias THEN s1 ELSE vector
        s2 == [s1 EXCEPT ![2] = FAdd(Flt, s1[2], Vector3_Index(v1, 1))]
        v2 == IF alias THEN s2 ELSE vector
    IN  [s2 EXCEPT ![3] = FAdd(Flt, s2[3], Vector3_Index(v2, 2))]

Vector3_SubAssign(self, vector, alias) ==
    LET s1 == [self EXCEPT ![1] = FSub(Flt, self[1], Vector3_Index(vector, 0))]
        v1 == IF alias THEN s1 ELSE vector
        s2 == [s1 EXCEPT ![2] = FSub(Flt, s1[2], Vector3_Index(v1, 1))]
        v2 == IF alias THEN s2 ELSE vector
    IN  [s2 EXCEPT ![3] = FSub(Flt, s2[3], Vector3_Index(v2, 2))]

\* cross with + for - in its last component
cross_PlusInLast(vector1, vector2) ==
    <<FSub(Flt, FMul(Flt, Vector3_Index(vector1, 1), Vector3_Index(vector2, 2)),
                FMul(Flt, Vector3_Index(vector1, 2), Vector3_Index(vector2, 1))),
      FSub(Flt, FMul(Flt, Vector3_Index(vector1, 2), Vector3_Index(vector2, 0)),
                FMul(Flt, Vector3_Index(vector1, 0), Vector3_Index(vector2, 2))),
      FAdd(Flt, FMul(Flt, Vector3_Index(vector1, 0), Vector3_Index(vector2, 1)),
                FMul(Flt, Vector3_Index(vector1, 1), Vector3_Index(vector2, 0)))>>

cross(vector1, vector2) ==
    <<FSub(Flt, FMul(Flt, Vector3_Index(vector1, 1), Vector3_Index(vector2, 2)),
                FMul(Flt, Vector3_Index(vector1, 2), Vector3_Index(vector2, 1))),
      FSub(Flt, FMul(Flt, Vector3_Index(vector1, 2), Vector3_Index(vector2, 0)),
                FMul(Flt, Vector3_Index(vector1, 0), Vector3_Index(vector2, 2))),
      FSub(Flt, FMul(Flt, Vector3_Index(vector1, 0), Vector3_Index(vector2, 1)),
                FMul(Flt, Vector3_Index(vector1, 1), Vector3_Index(vector2, 0)))>>

(***************************************************************************)
(* Named floats the runs draw their operands from.                         *)
(***************************************************************************)
HalfEps == Fin(FALSE, 1, 0 - FltP)
FltMax == Fin(FALSE, Pow2(FltP) - 1, FltEMax - FltP + 1)
MinSub == Fin(FALSE, 1, EMinU(Flt))

Vec2Over(S) == { <<x, y>> : x \in S, y \in S }
Vec3Over(S) == { <<x, y, z>> : x \in S, y \in S, z \in S }

(***************************************************************************)
(* SpecEq: a == b, a != b and a == a on a pair of vectors.                 *)
(***************************************************************************)
EqCompsA == {FromInt(0), FromInt(4), Inf(FALSE)}
EqCompsB == {FromInt(0), HalfEps, FLT_EPSILON, FromInt(4), FromInt(5), Inf(FALSE), NaN}
V234 == <<FromInt(2), FromInt(3), FromInt(4)>>
V235 == <<FromInt(2), FromInt(3), FromInt(5)>>

InitEq ==
    /\ \/ va \in Vec2Over(EqCompsA) /\ vb \in Vec2Over(EqCompsB)
       \/ va \in Vec3Over(EqCompsA) \cup {V234} /\ vb \in Vec3Over(EqCompsB) \cup {V234, V235}
    /\ sc = Zero(FALSE)
    /\ op = {}
    /\ out = [eq |-> FALSE, ne |-> FALSE, self |-> FALSE]
    /\ fold = va
    /\ nops = 0
    /\ atan2f = FALSE

\* a == b
Eq2 ==
    /\ Len(va) = 2 /\ "eq" \notin op
    /\ out' = [out EXCEPT !.eq = Vector2_Eq(va, vb)]
    /\ op' = op \cup {"eq"}
    /\ UNCHANGED <<va, vb, sc, fold, nops, atan2f>>

\* a != b
Ne2 ==
    /\ Len(va) = 2 /\ "ne" \notin op
    /\ out' = [out EXCEPT !.ne = Vector2_Ne(va, vb)]
    /\ op' = op \cup {"ne"}
    /\ UNCHANGED <<va, vb, sc, fold, nops, atan2f>>

\* a == a
EqSelf2 ==
    /\ Len(va) = 2 /\ "self" \notin op
    /\ out' = [out EXCEPT !.self = Vector2_Eq(va, va)]
    /\ op' = op \cup {"self"}
    /\ UNCHANGED <<va, vb, sc, fold, nops, atan2f>>

Eq3 ==
    /\ Len(va) = 3 /\ "eq" \notin op
    /\ out' = [out EXCEPT !.eq = Vector3_Eq(va, vb)]
    /\ op' = op \cup {"eq"}
    /\ UNCHANGED <<va, vb, sc, fold, nops, atan2f>>

Ne3 ==
    /\ Len(va) = 3 /\ "ne" \notin op
    /\ out' = [out EXCEPT !.ne = Vector3_Ne(va, vb)]
    /\ op' = op \cup {"ne"}
    /\ UNCHANGED <<va, vb, sc, fold, nops, atan2f>>

EqSelf3 ==
    /\ Len(va) = 3 /\ "self" \notin op
    /\ out' = [out EXCEPT !.self = Vector3_Eq(va, va)]
    /\ op' = op \cup {"self"}
    /\ UNCHANGED <<va, vb, sc, fold, nops, atan2f>>

NextEq == Eq2 \/ Ne2 \/ EqSelf2 \/ Eq3 \/ Ne3 \/ EqSelf3

SpecEq == InitEq /\ [][NextEq]_vars

\* the components of the pair, and how the float difference of each compares
\* with FLT_EPSILON
Comps == 1 .. Len(va)
DiffLess(i) == FLt(FAbs(FSub(Flt, va[i], vb[i])), FLT_EPSILON)
DiffMore(i) == FGt(FAbs(FSub(Flt, va[i], vb[i])), FLT_EPSILON)
OneDiffers == \E i \in Comps : DiffMore(i) /\ \A j \in Comps \ {i} : DiffLess(j)
AllFinite(u) == \A i \in 1 .. Len(u) : IsFin(u[i])

\* C1 (as amended). When exactly one component of a and b differs by more
\* than FLT_EPSILON and every other one by less, a == b and a != b are both
\* false; a == a is true when the components of a are finite, and false when
\* the differing component of a is infinite.
C1_OneComponentDiffers ==
    OneDiffers =>
        /\ "eq" \in op => ~out.eq
        /\ "ne" \in op => ~out.ne
        /\ "self" \in op => (out.self <=> AllFinite(va))

\* C1 (as stated): ..., while a == a returns true.
C1_AsStated ==
    OneDiffers =>
        /\ "eq" \in op => ~out.eq
        /\ "ne" \in op => ~out.ne
        /\ "self" \in op => out.self

\* Vector3(2,3,4) against Vector3(2,3,5), all three calls made
C1_Witness ==
    /\ va = V234 /\ vb = V235 /\ OneDiffers
    /\ op = {"eq", "ne", "self"}
    /\ ~out.eq /\ ~out.ne /\ out.self

\* C9. a == b and a != b are never both true; both are false exactly when the
\* float differences of the components are neither all below FLT_EPSILON nor
\* all above it (a difference equal to FLT_EPSILON, or a NaN, is neither).
C9_EqNeExclusive ==
    ("eq" \in op /\ "ne" \in op) =>
        /\ ~(out.eq /\ out.ne)
        /\ (~out.eq /\ ~out.ne) <=>
               (~(\A i \in Comps : DiffLess(i)) /\ ~(\A i \in Comps : DiffMore(i)))

\* both false with every component differing by exactly FLT_EPSILON
C9_Witness ==
    /\ "eq" \in op /\ "ne" \in op
    /\ ~out.eq /\ ~out.ne
    /\ \A i \in Comps : FAbs(FSub(Flt, va[i], vb[i])) = FLT_EPSILON

(***************************************************************************)
(* SpecCross: cross(a, b), -cross(b, a) and cross(a, a).                   *)
(***************************************************************************)
CrossCompsA == {FromInt(0), FromInt(1), FromInt(-2), FltMax}
CrossCompsB == {FromInt(0), FromInt(1), FromInt(3), FltMax, Inf(FALSE)}

InitCross ==
    /\ va \in Vec3Over(CrossCompsA)
    /\ vb \in Vec3Over(CrossCompsB)
    /\ sc = Zero(FALSE)
    /\ op = {}
    /\ out = [ab |-> Vector3_default, ba |-> Vector3_default,
              nba |-> Vector3_default, aa |-> Vector3_default]
    /\ fold = va
    /\ nops = 0
    /\ atan2f = FALSE

CrossAB ==
    /\ "ab" \notin op
    /\ out' = [out EXCEPT !.ab = cross(va, vb)]
    /\ op' = op \cup {"ab"}
    /\ UNCHANGED <<va, vb, sc, fold, nops, atan2f>>

CrossBA ==
    /\ "ba" \notin op
    /\ out' = [out EXCEPT !.ba = cross(vb, va)]
    /\ op' = op \cup {"ba"}
    /\ UNCHANGED <<va, vb, sc, fold, nops, atan2f>>

\* -cross(b, a)
NegCrossBA ==
    /\ "ba" \in op /\ "nba" \notin op
    /\ out' = [out EXCEPT !.nba = Vector3_Neg(out.ba)]
    /\ op' = op \cup {"nba"}
    /\ UNCHANGED <<va, vb, sc, fold, nops, atan2f>>

CrossAA ==
    /\ "aa" \notin op
    /\ out' = [out EXCEPT !.aa = cross(va, va)]
    /\ op' = op \cup {"aa"}
    /\ UNCHANGED <<va, vb, sc, fold, nops, atan2f>>

NextCross == CrossAB \/ CrossBA \/ NegCrossBA \/ CrossAA

SpecCross == InitCross /\ [][NextCross]_vars

\* every product of a component of u with another component of w is finite
ProductsFinite(u, w) ==
    \A i \in 1 .. 3, j \in 1 .. 3 : i # j => IsFin(FMul(Flt, u[i], w[j]))

SameComponents(u, w) == \A i \in 1 .. 3 : FEq(u[i], w[i])

E1 == <<FromInt(1), FromInt(0), FromInt(0)>>
E2 == <<FromInt(0), FromInt(1), FromInt(0)>>
E3 == <<FromInt(0), FromInt(0), FromInt(1)>>

\* C2 (as amended). For a and b whose component products are finite,
\* cross(a, b) equals -cross(b, a) component by component, and cross(v, v) is
\* the zero vector for v whose component products are finite;
\* cross((1,0,0), (0,1,0)) is (0,0,1).
C2_CrossAntiCommutes ==
    /\ ("ab" \in op /\ "nba" \in op /\ ProductsFinite(va, vb)) =>
           SameComponents(out.ab, out.nba)
    /\ ("aa" \in op /\ ProductsFinite(va, va)) =>
           SameComponents(out.aa, Vector3_default)
    /\ ("ab" \in op /\ va = E1 /\ vb = E2) => out.ab = E3

\* C2 (as stated): for all a and b, and for every v.
C2_AsStated ==
    /\ ("ab" \in op /\ "nba" \in op) => SameComponents(out.ab, out.nba)
    /\ "aa" \in op => SameComponents(out.aa, Vector3_default)
    /\ ("ab" \in op /\ va = E1 /\ vb = E2) => out.ab = E3

\* a rounded, nonzero cross product and its mirror image
C2_Witness ==
    /\ op = {"ab", "ba", "nba", "aa"}
    /\ ProductsFinite(va, vb)
    /\ ~IsZero(out.ab[1]) /\ ~IsZero(out.ab[2]) /\ ~IsZero(out.ab[3])
    /\ SameComponents(out.ab, out.nba)
    /\ out.aa = Vector3_default

(***************************************************************************)
(* SpecNeg: v + (-v) == Vector(), one call after the other.                *)
(***************************************************************************)
NegComps3 == {Zero(FALSE), Zero(TRUE), MinSub, FromInt(1), FNeg(FltMax), Inf(FALSE), NaN}

InitNeg ==
    /\ va \in Vec2Over(Floats) \cup Vec3Over(NegComps3)
    /\ vb = va
    /\ sc = Zero(FALSE)
    /\ op = "init"
    /\ out = [t |-> va, eq |-> FALSE]
    /\ fold = va
    /\ nops = 0
    /\ atan2f = FALSE

\* t = -v
NegV2 ==
    /\ Len(va) = 2 /\ op = "init"
    /\ out' = [out EXCEPT !.t = Vector2_Neg(va)]
    /\ op' = "neg"
    /\ UNCHANGED <<va, vb, sc, fold, nops, atan2f>>

\* t = v + t
AddNegV2 ==
    /\ Len(va) = 2 /\ op = "neg"
    /\ out' = [out EXCEPT !.t = Vector2_Add(va, out.t)]
    /\ op' = "add"
    /\ UNCHANGED <<va, vb, sc, fold, nops, atan2f>>

\* t == Vector2()
IsZeroV2 ==
    /\ Len(va) = 2 /\ op = "add"
    /\ out' = [out EXCEPT !.eq = Vector2_Eq(out.t, Vector2_default)]
    /\ op' = "cmp"
    /\ UNCHANGED <<va, vb, sc, fold, nops, atan2f>>

NegV3 ==
    /\ Len(va) = 3 /\ op = "init"
    /\ out' = [out EXCEPT !.t = Vector3_Neg(va)]
    /\ op' = "neg"
    /\ UNCHANGED <<va, vb, sc, fold, nops, atan2f>>

AddNegV3 ==
    /\ Len(va) = 3 /\ op = "neg"
    /\ out' = [out EXCEPT !.t = Vector3_Add(va, out.t)]
    /\ op' = "add"
    /\ UNCHANGED <<va, vb, sc, fold, nops, atan2f>>

IsZeroV3 ==
    /\ Len(va) = 3 /\ op = "add"
    /\ out' = [out EXCEPT !.eq = Vector3_Eq(out.t, Vector3_default)]
    /\ op' = "cmp"
    /\ UNCHANGED <<va, vb, sc, fold, nops, atan2f>>

NextNeg == NegV2 \/ AddNegV2 \/ IsZeroV2 \/ NegV3 \/ AddNegV3 \/ IsZeroV3

SpecNeg == InitNeg /\ [][NextNeg]_vars

\* C6 (as amended). v + (-v) compares equal to the default-constructed zero
\* vector for every v whose components are finite, and for no other v.
C6_AddNegIsZero == op = "cmp" => (out.eq <=> AllFinite(va))

\* C6 (as stated): for every v.
C6_AsStated == op = "cmp" => out.eq

\* a vector of the largest and the smallest finite magnitudes
C6_Witness ==
    /\ op = "cmp" /\ out.eq
    /\ va = <<FltMax, FNeg(MinSub)>>
    /\ out.t = Vector2_default

(***************************************************************************)
(* SpecScale: (v * s) / s == v, one call after the other.                  *)
(***************************************************************************)
ScaleComps2 == {Zero(FALSE), MinSub, FromInt(1), FromInt(-3), FltMax, Inf(FALSE), NaN}
ScaleComps3 == {Zero(FALSE), FromInt(1), FromInt(5), FNeg(FltMax)}

InitScale ==
    /\ va \in Vec2Over(ScaleComps2) \cup Vec3Over(ScaleComps3)
    /\ vb = va
    /\ sc \in Floats
    /\ op = "init"
    /\ out = [t |-> va, eq |-> FALSE]
    /\ fold = va
    /\ nops = 0
    /\ atan2f = FALSE

\* t = v * s
MulS2 ==
    /\ Len(va) = 2 /\ op = "init"
    /\ out' = [out EXCEPT !.t = Vector2_Mul(va, sc)]
    /\ op' = "mul"
    /\ UNCHANGED <<va, vb, sc, fold, nops, atan2f>>

\* t = t / s
DivS2 ==
    /\ Len(va) = 2 /\ op = "mul"
    /\ out' = [out EXCEPT !.t = Vector2_Div(out.t, sc)]
    /\ op' = "div"
    /\ UNCHANGED <<va, vb, sc, fold, nops, atan2f>>

\* t == v
SameV2 ==
    /\ Len(va) = 2 /\ op = "div"
    /\ out' = [out EXCEPT !.eq = Vector2_Eq(out.t, va)]
    /\ op' = "cmp"
    /\ UNCHANGED <<va, vb, sc, fold, nops, atan2f>>

MulS3 ==
    /\ Len(va) = 3 /\ op = "init"
    /\ out' = [out EXCEPT !.t = Vector3_Mul(va, sc)]
    /\ op' = "mul"
    /\ UNCHANGED <<va, vb, sc, fold, nops, atan2f>>

DivS3 ==
    /\ Len(va) = 3 /\ op = "mul"
    /\ out' = [out EXCEPT !.t = Vector3_Div(out.t, sc)]
    /\ op' = "div"
    /\ UNCHANGED <<va, vb, sc, fold, nops, atan2f>>

SameV3 ==
    /\ Len(va) = 3 /\ op = "div"
    /\ out' = [out EXCEPT !.eq = Vector3_Eq(out.t, va)]
    /\ op' = "cmp"
    /\ UNCHANGED <<va, vb, sc, fold, nops, atan2f>>

NextScale == MulS2 \/ DivS2 \/ SameV2 \/ MulS3 \/ DivS3 \/ SameV3

SpecScale == InitScale /\ [][NextScale]_vars

\* the product x * y is a float: computing it neither rounds nor overflows
\* nor underflows
ExactProduct(x, y) ==
    /\ IsFin(x) /\ IsFin(y)
    /\ FMul(Flt, x, y) = Fin(x.neg # y.neg, x.m * y.m, x.e + y.e)

\* 1 / y is a float
ExactReciprocal(y) ==
    /\ IsFin(y) /\ ~IsZero(y)
    /\ IsFin(FDiv(Flt, One, y))
    /\ Fin(FALSE, FDiv(Flt, One, y).m * y.m, FDiv(Flt, One, y).e + y.e) = One

ExactScale == ExactReciprocal(sc) /\ \A i \in 1 .. Len(va) : ExactProduct(va[i], sc)

InitNorm ==
    /\ va \in Vec2Over(Floats)
    /\ vb = va
    /\ sc = Zero(FALSE)
    /\ op = {}
    /\ out = [member |-> [val |-> Vector2_default, divided |-> FALSE],
              free |-> Vector2_default]
    /\ fold = va
    /\ nops = 0
    /\ atan2f = FALSE

\* va.normalized(): not a const member, but it writes no member
Normalized ==
    /\ "member" \notin op
    /\ out' = [out EXCEPT !.member = Vector2_normalized(va)]
    /\ op' = op \cup {"member"}
    /\ UNCHANGED <<va, vb, sc, fold, nops, atan2f>>

\* normalize(va)
Normalize ==
    /\ "free" \notin op
    /\ out' = [out EXCEPT !.free = Vector2_normalize(va)]
    /\ op' = op \cup {"free"}
    /\ UNCHANGED <<va, vb, sc, fold, nops, atan2f>>

NextNorm == Normalized \/ Normalize

SpecNorm == InitNorm /\ [][NextNorm]_vars

\* C5. normalized() returns the receiver's components, without dividing, when
\* the length sqrt(x^2 + y^2) is below FLT_EPSILON, and (x/length, y/length)
\* otherwise; the receiver keeps its value (vb holds the value it had before
\* any call).  normalize(v) has no guard: it is v / abs(v) whatever abs(v) is,
\* so that normalize of the zero vector is (NaN, NaN), not the zero vector.
C5_NormalizedGuard ==
    LET length == FSqrt(Dbl, FAdd(Dbl, FMul(Dbl, va[1], va[1]), FMul(Dbl, va[2], va[2])))
    IN  /\ va = vb
        /\ ("member" \in op /\ FLt(length, FLT_EPSILON)) =>
               /\ out.member.val = va
               /\ ~out.member.divided
        /\ ("member" \in op /\ ~FLt(length, FLT_EPSILON)) =>
               /\ out.member.val = <<FConv(Flt, FDiv(Dbl, va[1], length)),
                                     FConv(Flt, FDiv(Dbl, va[2], length))>>
               /\ out.member.divided
        /\ ("member" \in op /\ va = Vector2_default) => out.member.val = Vector2_default
        /\ "free" \in op =>
               LET inv == FDiv(Flt, One, Vector2_abs(va))
               IN  out.free = <<FMul(Flt, va[1], inv), FMul(Flt, va[2], inv)>>
        /\ ("free" \in op /\ va = Vector2_default) => out.free = <<NaN, NaN>>

\* the zero vector through both, and a short nonzero vector that normalized()
\* hands back
C5_Witness ==
    /\ op = {"member", "free"}
    /\ va = <<HalfEps, Zero(FALSE)>>
    /\ out.member.val = va /\ ~out.member.divided
    /\ out.free = <<One, Zero(FALSE)>>

(***************************************************************************)
(* SpecAngle: a.polarAngle(), b.polarAngle() and a.angleTo(&b).            *)
(***************************************************************************)
AngleComps == {Zero(FALSE), Zero(TRUE), FromInt(1), FromInt(-1), FltMax, FNeg(FltMax),
               Inf(FALSE), Inf(TRUE), NaN}
AngleVecs == { u \in Vec2Over(AngleComps) : ExactAngle(u) }

InitAngle ==
    /\ va \in AngleVecs
    /\ vb \in AngleVecs
    /\ sc = Zero(FALSE)
    /\ op = {}
    /\ out = [this |-> AngNaN, other |-> AngNaN, to |-> AngNaN]
    /\ fold = va
    /\ nops = 0
    /\ atan2f \in BOOLEAN

PolarAngleThis ==
    /\ "this" \notin op
    /\ out' = [out EXCEPT !.this = Vector2_polarAngle(va)]
    /\ op' = op \cup {"this"}
    /\ UNCHANGED <<va, vb, sc, fold, nops, atan2f>>

PolarAngleOther ==
    /\ "other" \notin op
    /\ out' = [out EXCEPT !.other = Vector2_polarAngle(vb)]
    /\ op' = op \cup {"other"}
    /\ UNCHANGED <<va, vb, sc, fold, nops, atan2f>>

AngleTo ==
    /\ "to" \notin op
    /\ out' = [out EXCEPT !.to = Vector2_angleTo(va, vb)]
    /\ op' = op \cup {"to"}
    /\ UNCHANGED <<va, vb, sc, fold, nops, atan2f>>

NextAngle == PolarAngleThis \/ PolarAngleOther \/ AngleTo

SpecAngle == InitAngle /\ [][NextAngle]_vars

AllAnglesTaken == op = {"this", "other", "to"}
\* d = other.polarAngle() - this.polarAngle(), from the two calls' results
RawDiff ==
    [k |-> "fin", q |-> out.other.q - out.this.q, r |-> out.other.r - out.this.r]
BothAnglesNumbers == out.this.k = "fin" /\ out.other.k = "fin"
\* p > c * pi/4 and p <= c * pi/4 for an angle p that is a number
Above(p, c) == p.q > c \/ (p.q = c /\ p.r > 0)
AtMost(p, c) == p.q < c \/ (p.q = c /\ p.r <= 0)
Shifted(p, c) == [k |-> "fin", q |-> p.q + c, r |-> p.r]

\* C4. With d = other.polarAngle() - this.polarAngle(), angleTo returns d when
\* -pi < d <= pi, d - pi when d > pi and d + 2 pi when d <= -pi;
\* (1,0).angleTo((0,1)) is pi/2, the polar angle of (0,1).
C4_AngleToWrap ==
    /\ (AllAnglesTaken /\ BothAnglesNumbers) =>
           /\ (Above(RawDiff, -M_PI) /\ AtMost(RawDiff, M_PI)) => out.to = RawDiff
           /\ Above(RawDiff, M_PI) => out.to = Shifted(RawDiff, -M_PI)
           /\ AtMost(RawDiff, -M_PI) => out.to = Shifted(RawDiff, 2 * M_PI)
    /\ (AllAnglesTaken /\ va = <<FromInt(1), FromInt(0)>> /\ vb = <<FromInt(0), FromInt(1)>>) =>
           out.to.q = 2 /\ out.to = out.other

\* (1,0).angleTo((0,1)), atan2 taking doubles
C4_Witness ==
    /\ AllAnglesTaken /\ ~atan2f
    /\ va = <<FromInt(1), FromInt(0)>> /\ vb = <<FromInt(0), FromInt(1)>>
    /\ out.this = Ang(0) /\ out.other = Ang(2) /\ out.to = Ang(2)

InHalfOpenTurn(p) == p.k = "fin" /\ Above(p, -M_PI) /\ AtMost(p, M_PI)

\* C10. When both polar angles lie in (-pi, pi], so does the angle angleTo
\* returns, and it differs from the raw difference by a multiple of 2 pi
\* exactly when the raw difference is at most pi.
C10_AngleToRange ==
    (AllAnglesTaken /\ InHalfOpenTurn(out.this) /\ InHalfOpenTurn(out.other)) =>
        /\ InHalfOpenTurn(out.to)
        /\ ((out.to.q - RawDiff.q) % (2 * M_PI) = 0 /\ out.to.r = RawDiff.r)
               <=> AtMost(RawDiff, M_PI)

\* a raw difference above pi, returned less pi: in range, not congruent
C10_Witness ==
    /\ AllAnglesTaken /\ InHalfOpenTurn(out.this) /\ InHalfOpenTurn(out.other)
    /\ RawDiff.q = 6
    /\ out.to.q = 2 /\ out.to.r = RawDiff.r

(***************************************************************************)
(* Spec: a receiver va under any sequence of at most MaxOps mutating calls *)
(* (+=, -=, *=, /=, a write through operator[]), with the non-mutating     *)
(* operators and the accessors called in between.  vb is a second object   *)
(* passed as the argument; `alias` passes the receiver itself.  op is the  *)
(* last call, sc its float argument, out what it returned: the object the  *)
(* returned reference designates ("this") or a temporary, and its value.   *)
(***************************************************************************)
\* the longest sequence of mutating calls
MaxOps == 2

SeqInit2 == {<<FromInt(1), FltMax>>, <<Zero(TRUE), FromInt(-3)>>}
SeqArg2 == {<<FromInt(1), FromInt(2)>>, <<FltMax, HalfEps>>}
SeqInit3 == {<<FromInt(1), FromInt(-3), FltMax>>, Vector3_default}
SeqArg3 == {<<FromInt(1), FromInt(2), FromInt(5)>>, <<FltMax, HalfEps, Inf(TRUE)>>}
SeqScalars == {FromInt(3), Zero(FALSE)}
SeqWritten == {FromInt(5), NaN}

Call(name, alias, i) == [name |-> name, alias |-> alias, i |-> i]
Returned(ref, val) == [ref |-> ref, val |-> val]

Init ==
    /\ \/ va \in SeqInit2 /\ vb \in SeqArg2
       \/ va \in SeqInit3 /\ vb \in SeqArg3
    /\ sc = Zero(FALSE)
    /\ op = Call("init", FALSE, 0)
    /\ out = Returned("none", Zero(FALSE))
    /\ fold = va
    /\ nops = 0
    /\ atan2f = FALSE

\* a mutating call on va: its new value, the non-mutating operator applied to
\* fold, and the reference to the receiver that it returns
Mutate(name, alias, i, x, newVa, newFold) ==
    /\ nops < MaxOps
    /\ va' = newVa
    /\ fold' = newFold
    /\ sc' = x
    /\ op' = Call(name, alias, i)
    /\ out' = Returned("this", newVa)
    /\ nops' = nops + 1
    /\ UNCHANGED <<vb, atan2f>>

\* a call of a const member: a temporary is returned
Query(name, i, x, val) ==
    /\ op' = Call(name, FALSE, i)
    /\ sc' = x
    /\ out' = Returned("temp", val)
    /\ UNCHANGED <<va, vb, fold, nops, atan2f>>

MulAssign2 ==
    \E x \in SeqScalars :
        /\ Len(va) = 2
        /\ Mutate("*=", FALSE, 0, x, Vector2_MulAssign(va, x), Vector2_Mul(fold, x))

DivAssign2 ==
    \E x \in SeqScalars :
        /\ Len(va) = 2
        /\ Mutate("/=", FALSE, 0, x, Vector2_DivAssign(va, x), Vector2_Div(fold, x))

AddAssign2 ==
    \E alias \in BOOLEAN :
        /\ Len(va) = 2
        /\ Mutate("+=", alias, 0, sc,
                  Vector2_AddAssign(va, IF alias THEN va ELSE vb, alias),
                  Vector2_Add(fold, IF alias THEN va ELSE vb))

SubAssign2 ==
    \E alias \in BOOLEAN :
        /\ Len(va) = 2
        /\ Mutate("-=", alias, 0, sc,
                  Vector2_SubAssign(va, IF alias THEN va ELSE vb, alias),
                  Vector2_Sub(fold, IF alias THEN va ELSE vb))

MulAssign3 ==
    \E x \in SeqScalars :
        /\ Len(va) = 3
        /\ Mutate("*=", FALSE, 0, x, Vector3_MulAssign(va, x), Vector3_Mul(fold, x))

DivAssign3 ==
    \E x \in SeqScalars :
        /\ Len(va) = 3
        /\ Mutate("/=", FALSE, 0, x, Vector3_DivAssign(va, x), Vector3_Div(fold, x))

AddAssign3 ==
    \E alias \in BOOLEAN :
        /\ Len(va) = 3
        /\ Mutate("+=", alias, 0, sc,
                  Vector3_AddAssign(va, IF alias THEN va ELSE vb, alias),
                  Vector3_Add(fold, IF alias THEN va ELSE vb))

SubAssign3 ==
    \E alias \in BOOLEAN :
        /\ Len(va) = 3
        /\ Mutate("-=", alias, 0, sc,
                  Vector3_SubAssign(va, IF alias THEN va ELSE vb, alias),
                  Vector3_Sub(fold, IF alias THEN va ELSE vb))

\* va[i] = x
IndexAssign3 ==
    \E i \in 0 .. 2, x \in SeqWritten :
        /\ Len(va) = 3
        /\ Mutate("[]=", FALSE, i, x, Vector3_IndexAssign(va, i, x),
                  Vector3_IndexAssign(fold, i, x))

Neg2 == Len(va) = 2 /\ Query("neg", 0, sc, Vector2_Neg(va))
Dot2 == Len(va) = 2 /\ Query("dot", 0, sc, Vector2_Dot(va, vb))
Add2 == Len(va) = 2 /\ Query("+", 0, sc, Vector2_Add(va, vb))
Sub2 == Len(va) = 2 /\ Query("-", 0, sc, Vector2_Sub(va, vb))
Mul2 == \E x \in SeqScalars : Len(va) = 2 /\ Query("*", 0, x, Vector2_Mul(va, x))
Div2 == \E x \in SeqScalars : Len(va) = 2 /\ Query("/", 0, x, Vector2_Div(va, x))

Neg3 == Len(va) = 3 /\ Query("neg", 0, sc, Vector3_Neg(va))
Dot3 == Len(va) = 3 /\ Query("dot", 0, sc, Vector3_Dot(va, vb))
Add3 == Len(va) = 3 /\ Query("+", 0, sc, Vector3_Add(va, vb))
Sub3 == Len(va) = 3 /\ Query("-", 0, sc, Vector3_Sub(va, vb))
Mul3 == \E x \in SeqScalars : Len(va) = 3 /\ Query("*", 0, x, Vector3_Mul(va, x))
Div3 == \E x \in SeqScalars : Len(va) = 3 /\ Query("/", 0, x, Vector3_Div(va, x))

GetX3 == Len(va) = 3 /\ Query("x", 0, sc, Vector3_x(va))
GetY3 == Len(va) = 3 /\ Query("y", 0, sc, Vector3_y(va))
GetZ3 == Len(va) = 3 /\ Query("z", 0, sc, Vector3_z(va))
Index3 == \E i \in 0 .. 2 : Len(va) = 3 /\ Query("[]", i, sc, Vector3_Index(va, i))

Next ==
    \/ MulAssign2 \/ DivAssign2 \/ AddAssign2 \/ SubAssign2
    \/ MulAssign3 \/ DivAssign3 \/ AddAssign3 \/ SubAssign3
    \/ IndexAssign3
    \/ Neg2 \/ Dot2 \/ Add2 \/ Sub2 \/ Mul2 \/ Div2
    \/ Neg3 \/ Dot3 \/ Add3 \/ Sub3 \/ Mul3 \/ Div3
    \/ GetX3 \/ GetY3 \/ GetZ3 \/ Index3

Spec == Init /\ [][Next]_vars

\* what the non-mutating operator named by an in-place call returns for the
\* receiver u, the vector argument w and the float argument x
Plain(name, u, w, x) ==
    IF Len(u) = 2
    THEN CASE name = "+=" -> Vector2_Add(u, w)
           [] name = "-=" -> Vector2_Sub(u, w)
           [] name = "*=" -> Vector2_Mul(u, x)
           [] name = "/=" -> Vector2_Div(u, x)
    ELSE CASE name = "+=" -> Vector3_Add(u, w)
           [] name = "-=" -> Vector3_Sub(u, w)
           [] name = "*=" -> Vector3_Mul(u, x)
           [] name = "/=" -> Vector3_Div(u, x)

InPlaceNames == {"+=", "-=", "*=", "/="}
ConstNames == {"neg", "dot", "+", "-", "*", "/"}

\* an in-place call leaves in the receiver what the non-mutating operator
\* returns for the same operands, returns the receiver, and leaves the other
\* object alone; a non-mutating call leaves both objects alone
InPlaceStep ==
    /\ op'.name \in InPlaceNames =>
           /\ va' = Plain(op'.name, va, IF op'.alias THEN va ELSE vb, sc')
           /\ out'.ref = "this" /\ out'.val = va'
           /\ vb' = vb
    /\ op'.name \in ConstNames =>
           /\ va' = va /\ vb' = vb
           /\ out'.ref = "temp"

\* C3. Each in-place operator leaves the receiver holding exactly what the
\* matching non-mutating operator returns for the same operands, returns the
\* receiver and leaves a distinct argument unchanged; the non-mutating
\* operators change neither operand; so after any sequence of in-place calls
\* the receiver is the fold of the non-mutating operators over the arguments.
C3_InPlaceMatchesPlain == [](va = fold) /\ [][InPlaceStep]_vars

\* two in-place calls, the second a division that rounds, on a receiver that
\* is no longer its initial value
C3_Witness ==
    /\ nops = 2 /\ op.name = "/=" /\ sc = FromInt(3)
    /\ out.ref = "this" /\ out.val = va
    /\ va = fold
    /\ va = <<FromInt(1), Inf(FALSE)>>

\* a write through operator[](i) changes component i and no other, and the
\* accessor of component i returns the written value afterwards
IndexWriteStep ==
    op'.name = "[]=" =>
        /\ \A j \in 0 .. 2 : j # op'.i => Vector3_Index(va', j) = Vector3_Index(va, j)
        /\ Vector3_Index(va', op'.i) = sc'
        /\ op'.i = 0 => Vector3_x(va') = sc'
        /\ op'.i = 1 => Vector3_y(va') = sc'
        /\ op'.i = 2 => Vector3_z(va') = sc'

\* operator[](i) const returns what x(), y(), z() return for i = 0, 1, 2
IndexReadsAccessor ==
    /\ (op.name = "[]" /\ op.i = 0) => out.val = Vector3_x(va)
    /\ (op.name = "[]" /\ op.i = 1) => out.val = Vector3_y(va)
    /\ (op.name = "[]" /\ op.i = 2) => out.val = Vector3_z(va)
    /\ op.name = "x" => out.val = va[1]
    /\ op.name = "y" => out.val = va[2]
    /\ op.name = "z" => out.val = va[3]

\* C7. A Vector3 is a triple addressed by index: operator[](i) reads what
\* x(), y(), z() read for i = 0, 1, 2, and a write through operator[](i)
\* changes component i only and shows through the matching accessor.
C7_IndexedTriple == []IndexReadsAccessor /\ [][IndexWriteStep]_vars

\* val_[1] written, then read back by index, the other two as constructed
C7_Witness ==
    /\ Len(va) = 3 /\ nops = 1
    /\ op.name = "[]" /\ op.i = 1
    /\ out.val = FromInt(5)
    /\ va = <<FromInt(1), FromInt(5), FltMax>>

=============================================================================
